---- MODULE Spec2Model ----
(***************************************************************************)
(* FormEase: field detection, fusion and ordering.                         *)
(* Texts are sequences of one-character strings, boxes are 4-tuples        *)
(* <<x1, y1, x2, y2>> of integers, confidences are integers in hundredths. *)
(***************************************************************************)
EXTENDS Integers, Sequences, FiniteSets, TLC

VARIABLES
    pc,            \* position of the running operation
    page,          \* PageData under detection
    lines,         \* detect_fields: result of group_into_lines
    input_regions, \* detect_fields: result of detect_input_regions
    li,            \* detect_fields: index of the line the loop is at
    line_text,     \* detect_fields: text of the last line processed
    field_type,    \* detect_fields: classify_label of the last line
    target,        \* detect_fields: find_nearest_input_region of the last line
    fields,        \* detect_fields: the fields emitted so far
    heuristic,     \* merge_fields: first argument
    llm,           \* merge_fields: second argument
    merged,        \* merge_fields: result
    all_fields,    \* order_fields: argument
    ordered,       \* order_fields: result
    response,      \* upload: what the chat completion call produced, per page
    doc,           \* upload: the FormDocument being built
    status,        \* upload: HTTP status of the reply
    sessions,      \* app: the session store, session id -> FormDocument
    uuids,         \* app: number of uuid4 document ids drawn so far
    now,           \* app: time.time(), in seconds
    request,       \* app: the request being served
    reply,         \* app: the reply to it
    threads,       \* app: the requests being served at once, one per thread
    entries,       \* app: the slots of the sessions dict, in insertion order
    started        \* app: number of concurrent requests started so far

detectVars == <<lines, input_regions, li, line_text, field_type, target, fields>>
mergeVars == <<heuristic, llm, merged>>
orderVars == <<all_fields, ordered>>
uploadVars == <<response, doc, status>>
threadVars == <<threads, entries, started>>
appVars == <<sessions, uuids, now, request, reply, threadVars>>

vars == <<pc, page, detectVars, mergeVars, orderVars, uploadVars, appVars>>

\* None, for a field type and for a box
None == "None"
NoRegion == <<>>
NoPage == [page_index |-> -1]
NoDocument == [pages |-> <<>>, fields |-> <<>>]
NoRequest == [route |-> "none"]
NoReply == [status |-> 0]

Min(a, b) == IF a < b THEN a ELSE b
Max(a, b) == IF a > b THEN a ELSE b
Abs(a) == IF a < 0 THEN 0 - a ELSE a

\* All sequences over S of length 0..n
SeqUpTo(S, n) == UNION {[1..k -> S] : k \in 0..n}

(***************************************************************************)
(* Characters and strings                                                  *)
(***************************************************************************)
ToLower ==
    ("A" :> "a") @@ ("B" :> "b") @@ ("C" :> "c") @@ ("D" :> "d") @@
    ("E" :> "e") @@ ("F" :> "f") @@ ("G" :> "g") @@ ("H" :> "h") @@
    ("I" :> "i") @@ ("J" :> "j") @@ ("K" :> "k") @@ ("L" :> "l") @@
    ("M" :> "m") @@ ("N" :> "n") @@ ("O" :> "o") @@ ("P" :> "p") @@
    ("Q" :> "q") @@ ("R" :> "r") @@ ("S" :> "s") @@ ("T" :> "t") @@
    ("U" :> "u") @@ ("V" :> "v") @@ ("W" :> "w") @@ ("X" :> "x") @@
    ("Y" :> "y") @@ ("Z" :> "z")

LowerLetters == {ToLower[c] : c \in DOMAIN ToLower}
Digits == {"0", "1", "2", "3", "4", "5", "6", "7", "8", "9"}

\* regex \w, \s
WordChars == DOMAIN ToLower \cup LowerLetters \cup Digits \cup {"_"}
Whitespace == {" ", "\t", "\n"}

LowerChar(c) == IF c \in DOMAIN ToLower THEN ToLower[c] ELSE c

\* str.lower()
Lower(s) == [i \in 1..Len(s) |-> LowerChar(s[i])]

RECURSIVE LStrip(_)
LStrip(s) == IF s # <<>> /\ Head(s) \in Whitespace THEN LStrip(Tail(s)) ELSE s

RECURSIVE RStrip(_)
RStrip(s) ==
    IF s # <<>> /\ s[Len(s)] \in Whitespace
    THEN RStrip(SubSeq(s, 1, Len(s) - 1))
    ELSE s

\* str.strip()
Strip(s) == RStrip(LStrip(s))

\* " ".join(ws)
RECURSIVE Join(_)
Join(ws) ==
    IF ws = <<>> THEN <<>>
    ELSE IF Len(ws) = 1 THEN ws[1]
    ELSE ws[1] \o <<" ">> \o Join(Tail(ws))

(***************************************************************************)
(* Regular expressions: a pattern is a set of alternatives, an alternative *)
(* a sequence of atoms [cs, q]: a character class and a quantifier "1",    *)
(* "?" or "*".  All patterns carry (?i), so classes hold lower case and    *)
(* the text is folded before comparison.                                   *)
(***************************************************************************)
Lit(w) == [i \in 1..Len(w) |-> [cs |-> {w[i]}, q |-> "1"]]
Opt(cs) == <<[cs |-> cs, q |-> "?"]>>
Star(cs) == <<[cs |-> cs, q |-> "*"]>>

IsWordAt(s, i) == i >= 1 /\ i <= Len(s) /\ s[i] \in WordChars

\* \b at the position before s[i] (i in 1..Len(s)+1)
WordBoundary(s, i) == IsWordAt(s, i - 1) # IsWordAt(s, i)

\* the positions after the last character of a match of atoms[k..] at s[i..]
RECURSIVE MatchEnds(_, _, _, _)
MatchEnds(atoms, k, s, i) ==
    IF k > Len(atoms) THEN {i}
    ELSE LET a == atoms[k]
             hit == i <= Len(s) /\ LowerChar(s[i]) \in a.cs
         IN  IF a.q = "1"
             THEN IF hit THEN MatchEnds(atoms, k + 1, s, i + 1) ELSE {}
             ELSE IF a.q = "?"
             THEN MatchEnds(atoms, k + 1, s, i)
                  \cup (IF hit THEN MatchEnds(atoms, k + 1, s, i + 1) ELSE {})
             ELSE MatchEnds(atoms, k + 1, s, i)
                  \cup (IF hit THEN MatchEnds(atoms, k, s, i + 1) ELSE {})

\* re.search(r"(?i)\b<alt>\b", s) for some alternative of the pattern
Search(pattern, s) ==
    \E alt \in pattern : \E i \in 1..(Len(s) + 1) :
        /\ WordBoundary(s, i)
        /\ \E j \in MatchEnds(alt, 1, s, i) : WordBoundary(s, j)

(***************************************************************************)
(* Label classification                                                    *)
(***************************************************************************)
TEXT == "text"
NUMBER == "number"
DATE == "date"
EMAIL == "email"
PHONE == "phone"
CHECKBOX == "checkbox"
NRIC == "nric"

FieldType == {TEXT, NUMBER, DATE, EMAIL, PHONE, CHECKBOX, NRIC}

PatText == <<
    {Lit(<<"n","a","m","e">>)},
    {Lit(<<"a","d","d","r","e","s","s">>)},
    {Lit(<<"o","c","c","u","p","a","t","i","o","n">>)},
    {Lit(<<"n","a","t","i","o","n","a","l","i","t","y">>)},
    {Lit(<<"c","o","m","p","a","n","y">>)},
    {Lit(<<"o","r","g","a","n","i">>) \o Opt({"s"}) \o Lit(<<"a","t","i","o","n">>)},
    {Lit(<<"g","e","n","d","e","r">>)},
    {Lit(<<"s","e","x">>)},
    {Lit(<<"r","a","c","e">>)},
    {Lit(<<"r","e","l","i","g","i","o","n">>)},
    {Lit(<<"s","i","g","n","a","t","u","r","e">>)},
    {Lit(<<"r","e","m","a","r","k">>) \o Opt({"s"})},
    {Lit(<<"p","u","r","p","o","s","e">>)} >>

PatEmail == <<
    {Lit(<<"e">>) \o Opt({"-"} \cup Whitespace) \o Lit(<<"m","a","i","l">>)} >>

PatPhone == <<
    {Lit(<<"p","h","o","n","e">>)},
    {Lit(<<"t","e","l">>), Lit(<<"t","e","l","e","p","h","o","n","e">>)},
    {Lit(<<"m","o","b","i","l","e">>)},
    {Lit(<<"c","o","n","t","a","c","t">>) \o Star(Whitespace) \o Lit(<<"n","o">>),
     Lit(<<"c","o","n","t","a","c","t">>) \o Star(Whitespace)
        \o Lit(<<"n","u","m","b","e","r">>)},
    {Lit(<<"f","a","x">>)} >>

PatDate == <<
    {Lit(<<"d","a","t","e">>)},
    {Lit(<<"d","o","b">>)},
    {Lit(<<"d","a","t","e">>) \o Star(Whitespace) \o Lit(<<"o","f">>)
        \o Star(Whitespace) \o Lit(<<"b","i","r","t","h">>)},
    {Lit(<<"e","x","p","i","r","y">>)},
    {Lit(<<"i","s","s","u","e">>) \o Star(Whitespace) \o Lit(<<"d","a","t","e">>)} >>

PatNric == <<
    {Lit(<<"n","r","i","c">>)},
    {Lit(<<"f","i","n">>)},
    {Lit(<<"i","c">>) \o Star(Whitespace) \o Lit(<<"n","o">>)} >>

PatNumber == <<
    {Lit(<<"a","g","e">>)},
    {Lit(<<"p","o","s","t","a","l">>) \o Star(Whitespace) \o Lit(<<"c","o","d","e">>)},
    {Lit(<<"z","i","p">>)},
    {Lit(<<"u","n","i","t">>) \o Star(Whitespace) \o Lit(<<"n","o">>)},
    {Lit(<<"b","l","o","c","k">>)} >>

\* the same table with EMAIL moved in front of TEXT
LABEL_PATTERNS_EmailFirst == <<
    [ftype |-> EMAIL, patterns |-> PatEmail],
    [ftype |-> TEXT, patterns |-> PatText],
    [ftype |-> PHONE, patterns |-> PatPhone],
    [ftype |-> DATE, patterns |-> PatDate],
    [ftype |-> NRIC, patterns |-> PatNric],
    [ftype |-> NUMBER, patterns |-> PatNumber] >>

\* the dict keeps its insertion order
LABEL_PATTERNS == <<
    [ftype |-> TEXT, patterns |-> PatText],
    [ftype |-> EMAIL, patterns |-> PatEmail],
    [ftype |-> PHONE, patterns |-> PatPhone],
    [ftype |-> DATE, patterns |-> PatDate],
    [ftype |-> NRIC, patterns |-> PatNric],
    [ftype |-> NUMBER, patterns |-> PatNumber] >>

AnyPattern(patterns, text) ==
    \E p \in 1..Len(patterns) : Search(patterns[p], text)

RECURSIVE ClassifyFrom(_, _)
ClassifyFrom(text, k) ==
    IF k > Len(LABEL_PATTERNS) THEN None
    ELSE IF AnyPattern(LABEL_PATTERNS[k].patterns, text)
         THEN LABEL_PATTERNS[k].ftype
         ELSE ClassifyFrom(text, k + 1)

classify_label(text) == ClassifyFrom(text, 1)

\* re.search(r"(?i)\*|\brequired\b|\bmandatory\b", label_text)
is_required(label_text) ==
    \/ \E i \in 1..Len(label_text) : label_text[i] = "*"
    \/ Search({Lit(<<"r","e","q","u","i","r","e","d">>)}, label_text)
    \/ Search({Lit(<<"m","a","n","d","a","t","o","r","y">>)}, label_text)

\* re.sub(r"[:\*]+$", "", s): the run of colons and asterisks that ends s
RECURSIVE StripTrailingMarks(_)
StripTrailingMarks(s) ==
    IF s # <<>> /\ s[Len(s)] \in {":", "*"}
    THEN StripTrailingMarks(SubSeq(s, 1, Len(s) - 1))
    ELSE s

\* re.sub(r"\s+", " ", s)
RECURSIVE CollapseWhitespace(_)
CollapseWhitespace(s) ==
    IF s = <<>> THEN <<>>
    ELSE IF Head(s) \in Whitespace
         THEN <<" ">> \o CollapseWhitespace(LStrip(s))
         ELSE <<Head(s)>> \o CollapseWhitespace(Tail(s))

clean_label(text) == Strip(CollapseWhitespace(StripTrailingMarks(Strip(text))))

(***************************************************************************)
(* Sorting: sorted(seq, key=...) is stable.  keys[i] is key(s[i]), a tuple  *)
(* of integers; tuples of one length compare lexicographically.            *)
(***************************************************************************)
TupleLt(a, b) ==
    \E k \in DOMAIN a : a[k] < b[k] /\ \A m \in 1..(k - 1) : a[m] = b[m]

\* a sort that puts the later of two equal keys first
StableSort_TiesReversed(s, keys) ==
    LET n == Len(s)
        rank(i) == Cardinality({j \in 1..n :
                        \/ TupleLt(keys[j], keys[i])
                        \/ (~TupleLt(keys[i], keys[j]) /\ j > i)}) + 1
    IN  [p \in 1..n |-> s[CHOOSE i \in 1..n : rank(i) = p]]

StableSort(s, keys) ==
    LET n == Len(s)
        rank(i) == Cardinality({j \in 1..n :
                        \/ TupleLt(keys[j], keys[i])
                        \/ (~TupleLt(keys[i], keys[j]) /\ j < i)}) + 1
    IN  [p \in 1..n |-> s[CHOOSE i \in 1..n : rank(i) = p]]

\* tuple comparison of two pairs / triples of integers
PairLt(a, b) == a[1] < b[1] \/ (a[1] = b[1] /\ a[2] < b[2])
TripleLt(a, b) ==
    \/ a[1] < b[1]
    \/ (a[1] = b[1] /\ a[2] < b[2])
    \/ (a[1] = b[1] /\ a[2] = b[2] /\ a[3] < b[3])
TripleLe(a, b) == ~TripleLt(b, a)

(***************************************************************************)
(* Formatting of identifiers                                               *)
(***************************************************************************)
DigitChars == <<"0", "1", "2", "3", "4", "5", "6", "7", "8", "9">>

RECURSIVE Decimal(_)
Decimal(n) ==
    IF n < 10 THEN <<DigitChars[n + 1]>>
    ELSE Decimal(n \div 10) \o <<DigitChars[(n % 10) + 1]>>

\* f"{i:03d}"
Fmt03d(i) ==
    LET d == Decimal(i)
    IN  IF Len(d) >= 3 THEN d ELSE [k \in 1..(3 - Len(d)) |-> "0"] \o d

HeuristicId(i) == <<"f">> \o Fmt03d(i)
LlmId(i) == <<"l", "l", "m">> \o Fmt03d(i)

(***************************************************************************)
(* Line grouping and boxes                                                 *)
(***************************************************************************)
\* every block, whatever its level
WordBlocks_AnyLevel(blocks) == blocks

\* if b.level == 5
WordBlocks(blocks) == SelectSeq(blocks, LAMBDA b : b.level = 5)

LineKeys(blocks) ==
    {<<blocks[i].block_num, blocks[i].line_num>> : i \in DOMAIN blocks}

\* sorted(lines_dict.keys())
SortedKeys(keys) ==
    LET rank(k) == Cardinality({k2 \in keys : PairLt(k2, k)}) + 1
    IN  [p \in 1..Cardinality(keys) |-> CHOOSE k \in keys : rank(k) = p]

\* key=lambda w: w.bbox[0]
X1Keys(g) == [i \in DOMAIN g |-> <<g[i].bbox[1]>>]

group_into_lines(blocks) ==
    LET words == WordBlocks(blocks)
        keys == SortedKeys(LineKeys(words))
        group(k) == SelectSeq(words,
                        LAMBDA b : <<b.block_num, b.line_num>> = k)
    IN  [p \in 1..Len(keys) |-> StableSort(group(keys[p]), X1Keys(group(keys[p])))]

SetMin(S) == CHOOSE m \in S : \A x \in S : m <= x
SetMax(S) == CHOOSE m \in S : \A x \in S : m >= x

merge_bboxes(bboxes) ==
    << SetMin({bboxes[i][1] : i \in DOMAIN bboxes}),
       SetMin({bboxes[i][2] : i \in DOMAIN bboxes}),
       SetMax({bboxes[i][3] : i \in DOMAIN bboxes}),
       SetMax({bboxes[i][4] : i \in DOMAIN bboxes}) >>

(***************************************************************************)
(* Visual input regions.  An image is what OpenCV reports of it: whether   *)
(* it decodes, the Hough segments <<x1, y1, x2, y2>> and the bounding      *)
(* rectangles <<x, y, w, h>> of the external contours.                     *)
(***************************************************************************)
RECURSIVE UnderlineRegions(_)
UnderlineRegions(segs) ==
    IF segs = <<>> THEN <<>>
    ELSE LET l == Head(segs)
         IN  (IF Abs(l[4] - l[2]) < 5
              THEN << <<Min(l[1], l[3]), l[2] - 25, Max(l[1], l[3]), l[2]>> >>
              ELSE <<>>) \o UnderlineRegions(Tail(segs))

RECURSIVE BoxRegions(_)
BoxRegions(rects) ==
    IF rects = <<>> THEN <<>>
    ELSE LET r == Head(rects)
             x == r[1]
             y == r[2]
             w == r[3]
             h == r[4]
         IN  (IF w > 2 * Max(h, 1) /\ w > 80 /\ 15 < h /\ h < 80
              THEN << <<x, y, x + w, y + h>> >>
              ELSE <<>>) \o BoxRegions(Tail(rects))

detect_input_regions(image) ==
    IF ~image.decodable THEN <<>>
    ELSE UnderlineRegions(image.segments) \o BoxRegions(image.rects)

(***************************************************************************)
(* Spatial association                                                     *)
(***************************************************************************)
MAX_DISTANCE == 200

\* abs(region_center_y - label_center_y) < 30, centres being halves
SameRow(label, region) ==
    /\ Abs((region[2] + region[4]) - (label[2] + label[4])) < 60
    /\ region[1] > label[3]

Below(label, region) ==
    /\ region[2] > label[4]
    /\ Abs(region[1] - label[1]) < 100

\* the step of the loop for one region: the new <<best, best_dist>>
\* with the below geometry tried even when the same-row one applied
NearestStep_BothGeometries(label, region, st) ==
    LET s1 == IF SameRow(label, region) /\ region[1] - label[3] < st[2]
              THEN <<region, region[1] - label[3]>> ELSE st
    IN  IF Below(label, region) /\ region[2] - label[4] < s1[2]
        THEN <<region, region[2] - label[4]>> ELSE s1

\* the step of the loop that never compares the distance with the best so far
NearestStep_NoCap(label, region, st) ==
    IF SameRow(label, region)
    THEN <<region, region[1] - label[3]>>
    ELSE IF Below(label, region)
         THEN <<region, region[2] - label[4]>>
         ELSE st

\* dist <= best_dist: a later candidate at the same distance replaces the earlier
NearestStep_LastTieWins(label, region, st) ==
    IF SameRow(label, region)
    THEN IF region[1] - label[3] <= st[2] /\ region[1] - label[3] < MAX_DISTANCE
         THEN <<region, region[1] - label[3]>> ELSE st
    ELSE IF Below(label, region)
         THEN IF region[2] - label[4] <= st[2] /\ region[2] - label[4] < MAX_DISTANCE
              THEN <<region, region[2] - label[4]>> ELSE st
         ELSE st

NearestStep(label, region, st) ==
    IF SameRow(label, region)
    THEN IF region[1] - label[3] < st[2]
         THEN <<region, region[1] - label[3]>> ELSE st
    ELSE IF Below(label, region)
         THEN IF region[2] - label[4] < st[2]
              THEN <<region, region[2] - label[4]>> ELSE st
         ELSE st

RECURSIVE NearestFrom(_, _, _, _)
NearestFrom(label, regions, k, st) ==
    IF k > Len(regions) THEN st[1]
    ELSE NearestFrom(label, regions, k + 1, NearestStep(label, regions[k], st))

find_nearest_input_region(label_bbox, regions, max_distance) ==
    NearestFrom(label_bbox, regions, 1, <<NoRegion, max_distance>>)

\* int(page_width * 0.8), page_width >= 0
EightyPercent(page_width) == (4 * page_width) \div 5

infer_answer_region(label_bbox, page_width) ==
    << label_bbox[3] + 10, label_bbox[2],
       Min(label_bbox[3] + 400, EightyPercent(page_width)), label_bbox[4] >>

(***************************************************************************)
(* detect_fields                                                           *)
(***************************************************************************)
\* round(sum(confidence) / len, 2) on confidences held in hundredths
\* (round() rounds halves to even)
RECURSIVE SumConf(_)
SumConf(ws) == IF ws = <<>> THEN 0 ELSE Head(ws).confidence + SumConf(Tail(ws))

RoundedMean(ws) ==
    LET n == Len(ws)
        q == SumConf(ws) \div n
        r == SumConf(ws) % n
    IN  IF 2 * r < n THEN q
        ELSE IF 2 * r > n THEN q + 1
        ELSE IF q % 2 = 0 THEN q ELSE q + 1

LineText(line_words) == Join([k \in 1..Len(line_words) |-> line_words[k].text])
LineBbox(line_words) ==
    merge_bboxes([k \in 1..Len(line_words) |-> line_words[k].bbox])

FormField(id, pg, label, ft, tgt, lbox, req, conf) ==
    [field_id |-> id, page_index |-> pg, label_text |-> label,
     field_type |-> ft, target_bbox |-> tgt, label_bbox |-> lbox,
     required |-> req, confidence |-> conf, answer |-> <<>>]

\* the field detect_fields emits for a classified line, `n` fields emitted before
HeuristicField(pg, line_words, regions, n) ==
    LET text == LineText(line_words)
        bbox == LineBbox(line_words)
        near == find_nearest_input_region(bbox, regions, MAX_DISTANCE)
    IN  FormField(HeuristicId(n), pg.page_index, clean_label(text),
                  classify_label(text),
                  IF near = NoRegion THEN infer_answer_region(bbox, pg.width)
                  ELSE near,
                  bbox, is_required(text), RoundedMean(line_words))

RECURSIVE DetectFrom(_, _, _, _, _)
DetectFrom(pg, lns, regions, k, acc) ==
    IF k > Len(lns) THEN acc
    ELSE DetectFrom(pg, lns, regions, k + 1,
            IF classify_label(LineText(lns[k])) = None THEN acc
            ELSE Append(acc, HeuristicField(pg, lns[k], regions, Len(acc))))

\* detect_fields as a function of the page
detect_fields(pg) ==
    DetectFrom(pg, group_into_lines(pg.ocr_blocks),
               detect_input_regions(pg.image), 1, <<>>)

\* detect_fields, one loop iteration per step.  `target` is the value
\* find_nearest_input_region returned for the line; the emitted field
\* carries the target after the fallback.
DetectBegin ==
    /\ pc = "detect"
    /\ lines' = group_into_lines(page.ocr_blocks)
    /\ input_regions' = detect_input_regions(page.image)
    /\ fields' = <<>>
    /\ li' = 1
    /\ pc' = "detect_loop"
    /\ UNCHANGED <<page, line_text, field_type, target>>
    /\ UNCHANGED <<mergeVars, orderVars, uploadVars, appVars>>

DetectLine ==
    /\ pc = "detect_loop"
    /\ li <= Len(lines)
    /\ LET text == LineText(lines[li])
           ft == classify_label(text)
       IN  /\ line_text' = text
           /\ field_type' = ft
           /\ IF ft = None
              THEN UNCHANGED <<target, fields>>
              ELSE /\ target' = find_nearest_input_region(
                                    LineBbox(lines[li]), input_regions,
                                    MAX_DISTANCE)
                   /\ fields' = Append(fields,
                        HeuristicField(page, lines[li], input_regions,
                                       Len(fields)))
    /\ li' = li + 1
    /\ UNCHANGED <<pc, page, lines, input_regions>>
    /\ UNCHANGED <<mergeVars, orderVars, uploadVars, appVars>>

DetectReturn ==
    /\ pc = "detect_loop"
    /\ li > Len(lines)
    /\ pc' = "detected"
    /\ UNCHANGED <<page, detectVars, mergeVars, orderVars, uploadVars, appVars>>

(***************************************************************************)
(* Pages under detection                                                   *)
(***************************************************************************)
MaxWords == 3
MaxRects == 2
MaxSegments == 1

Vocabulary == {
    <<"N","a","m","e",":">>,
    <<"E","m","a","i","l">>,
    <<"A","d","d","r","e","s","s">>,
    <<"*">>,
    <<"P","h","o","n","e">>,
    <<"D","a","t","e">>,
    <<"N","R","I","C">>,
    <<"A","g","e">>,
    <<"A","m","o","u","n","t">> }

NoImage == [decodable |-> FALSE, segments |-> <<>>, rects |-> <<>>]

WordBlock(text, bbox, conf, ln, k) ==
    [text |-> text, bbox |-> bbox, confidence |-> conf, level |-> 5,
     block_num |-> 1, line_num |-> ln, word_num |-> k]

\* one line of words laid out left to right, no decodable image
TextPage(ws) ==
    [page_index |-> 0, width |-> 1000, image |-> NoImage,
     ocr_blocks |-> [k \in 1..Len(ws) |->
        WordBlock(ws[k], <<50 + 80 * (k - 1), 100, 120 + 80 * (k - 1), 120>>,
                  90, 1, k)]]

TextPages == {TextPage(ws) : ws \in SeqUpTo(Vocabulary, MaxWords)}

LabelBoxes == {<<50, 100, 120, 120>>, <<50, 96, 120, 124>>}
PageWidths == {1000, 600, 601, 150}

\* bounding rectangles <<x, y, w, h>> of contours
Rects == {
    <<130, 95, 270, 26>>,    \* same row, 10 to the right
    <<125, 95, 275, 26>>,    \* same row, 5 to the right
    <<130, 121, 270, 29>>,   \* same row 10 to the right and 1 below
    <<370, 95, 270, 26>>,    \* same row, 250 to the right
    <<60, 140, 300, 30>>,    \* 20 below
    <<60, 330, 300, 30>>,    \* 210 below
    <<130, 95, 60, 26>> }    \* too narrow for an answer box

\* Hough segments <<x1, y1, x2, y2>>
Segments == {
    <<400, 121, 130, 122>>,  \* underline, 10 to the right
    <<130, 100, 400, 110>> } \* slanted

Images ==
    {[decodable |-> TRUE, segments |-> sg, rects |-> rc] :
        sg \in SeqUpTo(Segments, MaxSegments), rc \in SeqUpTo(Rects, MaxRects)}

\* the label "Name:" beside the regions of an image
GeomPage(lbox, image, width) ==
    [page_index |-> 0, width |-> width, image |-> image,
     ocr_blocks |-> <<WordBlock(<<"N","a","m","e",":">>, lbox, 90, 1, 1)>>]

GeomPages ==
    {GeomPage(lb, im, w) : lb \in LabelBoxes, im \in Images, w \in PageWidths}

DetectPages == TextPages \cup GeomPages

IdleDetect ==
    /\ lines = <<>>
    /\ input_regions = <<>>
    /\ li = 0
    /\ line_text = <<>>
    /\ field_type = None
    /\ target = NoRegion
    /\ fields = <<>>

IdleMerge == heuristic = <<>> /\ llm = <<>> /\ merged = <<>>
IdleOrder == all_fields = <<>> /\ ordered = <<>>
IdleUpload == response = <<>> /\ doc = NoDocument /\ status = 0
IdleThreads == threads = <<>> /\ entries = <<>> /\ started = 0
IdleApp ==
    /\ sessions = <<>> /\ uuids = 0 /\ now = 0 /\ request = NoRequest /\ reply = NoReply
    /\ IdleThreads

InitDetect ==
    /\ pc = "detect"
    /\ page \in DetectPages
    /\ IdleDetect /\ IdleMerge /\ IdleOrder /\ IdleUpload /\ IdleApp

NextDetect == DetectBegin \/ DetectLine \/ DetectReturn

SpecDetect == InitDetect /\ [][NextDetect]_vars

(***************************************************************************)
(* Properties of detect_fields                                             *)
(***************************************************************************)
\* a line has been through the loop body
LineDone == pc \in {"detect_loop", "detected"} /\ li > 1
\* ... and was classified, so that its box was associated
LineAssociated == LineDone /\ field_type # None
CurLabel == LineBbox(lines[li - 1])
LastField == fields[Len(fields)]

Priority == <<TEXT, EMAIL, PHONE, DATE, NRIC, NUMBER>>

MatchesType(t, text) ==
    \E k \in DOMAIN LABEL_PATTERNS :
        LABEL_PATTERNS[k].ftype = t /\ AnyPattern(LABEL_PATTERNS[k].patterns, text)

EarliestMatch(text) ==
    IF \A k \in DOMAIN Priority : ~MatchesType(Priority[k], text) THEN None
    ELSE Priority[CHOOSE k \in DOMAIN Priority :
            /\ MatchesType(Priority[k], text)
            /\ \A j \in 1..(k - 1) : ~MatchesType(Priority[j], text)]

\* C3: classify_label returns the earliest type, in the order TEXT, EMAIL,
\* PHONE, DATE, NRIC, NUMBER, one of whose patterns matches the text, and
\* None when no pattern matches.
C3_ClassifierPriority == LineDone => field_type = EarliestMatch(line_text)

C3_Witness ==
    /\ LineDone
    /\ MatchesType(TEXT, line_text)
    /\ MatchesType(PHONE, line_text)
    /\ field_type = TEXT

EmailAddressStar ==
    <<"E","m","a","i","l"," ","A","d","d","r","e","s","s"," ","*">>

\* C4: the line "Email Address *" is emitted as a field of type EMAIL,
\* required, with the cleaned label "Email Address".
C4_EmailAddressScenario ==
    (pc = "detected" /\ line_text = EmailAddressStar) =>
        /\ Len(fields) = 1
        /\ LastField.field_type = EMAIL
        /\ LastField.required
        /\ LastField.label_text =
                <<"E","m","a","i","l"," ","A","d","d","r","e","s","s">>

Regions == {input_regions[k] : k \in DOMAIN input_regions}

\* the distance of a candidate as the loop computes it: the horizontal gap of
\* a same-row candidate, else the vertical gap of a candidate below
Qualifies(label, r) == SameRow(label, r) \/ Below(label, r)
BranchDistance(label, r) ==
    IF SameRow(label, r) THEN r[1] - label[3] ELSE r[2] - label[4]

\* the distance of a candidate as the smallest over the geometries it satisfies
SmallestDistance(label, r) ==
    IF SameRow(label, r) /\ Below(label, r)
    THEN Min(r[1] - label[3], r[2] - label[4])
    ELSE BranchDistance(label, r)

\* the region synthesized to the right of a label, in whole pixels
Synthesized(label, width) ==
    <<label[3] + 10, label[2], Min(label[3] + 400, (8 * width) \div 10), label[4]>>

\* C8: find_nearest_input_region returns no candidate at distance 200 or
\* more; when no candidate qualifies under the cap it returns None and the
\* field's target is the region synthesized right of the label.
C8_DistanceCap ==
    LineAssociated =>
        /\ target # NoRegion =>
            /\ target \in Regions
            /\ Qualifies(CurLabel, target)
            /\ SmallestDistance(CurLabel, target) < 200
        /\ (\A r \in Regions :
                ~(Qualifies(CurLabel, r) /\ SmallestDistance(CurLabel, r) < 200)) =>
            /\ target = NoRegion
            /\ LastField.target_bbox = Synthesized(CurLabel, page.width)

\* a same-row candidate 250 to the right is passed over for the synthesized region
C8_Witness ==
    /\ LineAssociated
    /\ \E r \in Regions : SameRow(CurLabel, r) /\ r[1] - CurLabel[3] = 250
    /\ target = NoRegion
    /\ LastField.target_bbox = Synthesized(CurLabel, page.width)
    /\ page.width = 601

NearestBy(smallest) ==
    LET Dist(label, r) == IF smallest THEN SmallestDistance(label, r)
                                      ELSE BranchDistance(label, r)
    IN
    LineAssociated =>
        /\ target # NoRegion =>
            /\ target \in Regions
            /\ Qualifies(CurLabel, target)
            /\ Dist(CurLabel, target) < 200
            /\ \A r \in Regions : Qualifies(CurLabel, r) =>
                    Dist(CurLabel, r) >= Dist(CurLabel, target)
        /\ (\E r \in Regions : Qualifies(CurLabel, r) /\ Dist(CurLabel, r) < 200) =>
            target # NoRegion

\* C9 as stated: the returned region is nearest when a candidate's distance is
\* the smallest over the geometries it satisfies.
C9_NearestBySmallestDistance == NearestBy(TRUE)

\* C9 amended: the returned region is nearest when a candidate's distance is
\* its horizontal gap if it satisfies the same-row geometry and its vertical
\* gap only if it does not but satisfies the below geometry; a candidate is
\* returned whenever some candidate has such a distance under the cap.
C9_NearestByBranchDistance == NearestBy(FALSE)

C9_Witness ==
    /\ LineAssociated
    /\ CurLabel = <<50, 100, 120, 120>>
    /\ target = <<130, 95, 400, 121>>
    /\ \E r \in Regions : Below(CurLabel, r) /\ ~SameRow(CurLabel, r)
    /\ LastField.target_bbox = target
    /\ LastField.field_type = TEXT
    /\ ~LastField.required

(***************************************************************************)
(* merge_fields                                                            *)
(***************************************************************************)
\* f.label_text.strip().lower()
NormKey(f) == Lower(Strip(f.label_text))

\* The variants of the loop: the key and the comparison as written
\* (fold, higher), the key without .lower(), the comparison turned round.
AsWritten == [fold |-> TRUE, higher |-> TRUE]
KeyBy(v, f) == IF v.fold THEN NormKey(f) ELSE Strip(f.label_text)
BetterBy(v, f, existing) ==
    IF v.higher THEN f.confidence > existing.confidence
    ELSE f.confidence < existing.confidence

\* list.remove(x): without the first element equal to x
RemoveFirst(s, x) ==
    LET i == CHOOSE k \in DOMAIN s : s[k] = x /\ \A j \in 1..(k - 1) : s[j] # x
    IN  SubSeq(s, 1, i - 1) \o SubSeq(s, i + 1, Len(s))

\* {key(f): f for f in fs}: the last field of each key
SeenOf(v, fs) ==
    [k \in {KeyBy(v, fs[i]) : i \in DOMAIN fs} |->
        fs[CHOOSE i \in DOMAIN fs :
            KeyBy(v, fs[i]) = k /\ \A j \in (i + 1)..Len(fs) : KeyBy(v, fs[j]) # k]]

\* one iteration over the llm fields; st = [merged, seen]
MergeStep(v, st, f) ==
    LET key == KeyBy(v, f)
    IN  IF key = <<>> THEN st
        ELSE IF key \notin DOMAIN st.seen
        THEN [merged |-> Append(st.merged, f),
              seen |-> [k \in DOMAIN st.seen \cup {key} |->
                            IF k = key THEN f ELSE st.seen[k]]]
        ELSE IF BetterBy(v, f, st.seen[key])
        THEN [merged |-> Append(RemoveFirst(st.merged, st.seen[key]), f),
              seen |-> [st.seen EXCEPT ![key] = f]]
        ELSE st

RECURSIVE MergeLoop(_, _, _, _)
MergeLoop(v, st, fs, k) ==
    IF k > Len(fs) THEN st.merged
    ELSE MergeLoop(v, MergeStep(v, st, fs[k]), fs, k + 1)

MergeWith(v, h, l) ==
    IF l = <<>> THEN h
    ELSE MergeLoop(v, [merged |-> h, seen |-> SeenOf(v, h)], l, 1)

\* merge_fields with keys that keep their case
merge_fields_CaseSensitive(h, l) ==
    MergeWith([fold |-> FALSE, higher |-> TRUE], h, l)

\* merge_fields preferring the lower confidence
merge_fields_PreferLower(h, l) ==
    MergeWith([fold |-> TRUE, higher |-> FALSE], h, l)

\* merge_fields without the early return, the working list built from `seen`
merge_fields_FromSeen(h, l) ==
    LET seen == SeenOf(AsWritten, h)
        kept == SelectSeq(h, LAMBDA f : seen[NormKey(f)] = f)
    IN  MergeLoop(AsWritten, [merged |-> kept, seen |-> seen], l, 1)

merge_fields(h, l) == MergeWith(AsWritten, h, l)

Merge ==
    /\ pc = "merge"
    /\ merged' = merge_fields(heuristic, llm)
    /\ pc' = "merged"
    /\ UNCHANGED <<page, heuristic, llm, detectVars, orderVars, uploadVars, appVars>>

\* the result fused with the same external list once more
MergeAgain ==
    /\ pc = "merged"
    /\ merged' = merge_fields(merged, llm)
    /\ pc' = "remerged"
    /\ UNCHANGED <<page, heuristic, llm, detectVars, orderVars, uploadVars, appVars>>

(***************************************************************************)
(* Field lists to fuse: labels as clean_label leaves them, heuristic       *)
(* identifiers f000.., external identifiers llm000..                       *)
(***************************************************************************)
MaxHeuristic == 2
MaxLlm == 2

MergeLabels == {<<"N","a","m","e">>, <<"N","A","M","E">>, <<"D","a","t","e">>}
HeuristicConfidences == {50, 90}
LlmConfidences == {70, 90}

Candidate(label, conf) ==
    FormField(<<>>, 0, label, TEXT, <<130, 100, 520, 120>>,
              <<50, 100, 120, 120>>, FALSE, conf)

WithIds(fs, prefix) ==
    [k \in DOMAIN fs |-> [fs[k] EXCEPT !.field_id = prefix \o Fmt03d(k - 1)]]

HeuristicLists ==
    {WithIds(fs, <<"f">>) :
        fs \in SeqUpTo({Candidate(lb, c) :
                lb \in MergeLabels, c \in HeuristicConfidences}, MaxHeuristic)}

LlmLists ==
    {WithIds(fs, <<"l", "l", "m">>) :
        fs \in SeqUpTo({Candidate(lb, c) :
                lb \in MergeLabels, c \in LlmConfidences}, MaxLlm)}

InitMerge ==
    /\ pc = "merge"
    /\ page = NoPage
    /\ heuristic \in HeuristicLists
    /\ llm \in LlmLists
    /\ merged = <<>>
    /\ IdleDetect /\ IdleOrder /\ IdleUpload /\ IdleApp

NextMerge == Merge \/ MergeAgain

SpecMerge == InitMerge /\ [][NextMerge]_vars

(***************************************************************************)
(* Properties of merge_fields                                              *)
(***************************************************************************)
Keys(fs) == {NormKey(fs[i]) : i \in DOMAIN fs}
WithKey(fs, key) == {i \in DOMAIN fs : NormKey(fs[i]) = key}
DistinctKeys(fs) == \A i, j \in DOMAIN fs : i # j => NormKey(fs[i]) # NormKey(fs[j])

\* C5: fusing with an empty external list returns the heuristic list, the
\* same fields in the same order.
C5_FusionIdentity == (pc = "merged" /\ llm = <<>>) => merged = heuristic

C5_Witness ==
    /\ pc = "merged"
    /\ llm = <<>>
    /\ Len(heuristic) = 2
    /\ ~DistinctKeys(heuristic)
    /\ merged = heuristic

\* the same external field but for its identifier
SameField(e1, e2) == [e1 EXCEPT !.field_id = <<>>] = [e2 EXCEPT !.field_id = <<>>]

\* the external field e has been fused twice: as an external list holding it
\* twice, or by fusing the result with it again
FusedTwice ==
    \/ pc = "merged" /\ Len(llm) = 2 /\ SameField(llm[1], llm[2])
    \/ pc = "remerged" /\ Len(llm) = 1

\* C6: with pairwise distinct heuristic keys, fusing an external field e twice
\* leaves exactly one entry with e's key, and its confidence is the greatest
\* among the candidates of that key.
C6_FusionIdempotence ==
    (FusedTwice /\ DistinctKeys(heuristic)) =>
        LET key == NormKey(llm[1])
            rivals == {heuristic[i].confidence : i \in WithKey(heuristic, key)}
                        \cup {llm[1].confidence}
        IN  /\ Cardinality(WithKey(merged, key)) = 1
            /\ \A i \in WithKey(merged, key) :
                    merged[i].confidence = SetMax(rivals)

C6_Witness ==
    /\ FusedTwice
    /\ pc = "remerged"
    /\ DistinctKeys(heuristic)
    /\ WithKey(heuristic, NormKey(llm[1])) # {}
    /\ \A i \in WithKey(heuristic, NormKey(llm[1])) :
            heuristic[i].confidence < llm[1].confidence
    /\ merged[Len(merged)] = llm[1]

\* C7 as stated: for every heuristic and every external list the fused list
\* holds no two fields of equal trimmed, case-folded label.
C7_FusedListDeduplicated ==
    pc \in {"merged", "remerged"} => DistinctKeys(merged)

\* C7 amended: for every heuristic list whose trimmed, case-folded labels
\* are pairwise distinct and every external list, the fused list of the page
\* holds no two fields of equal trimmed, case-folded label.
C7_DeduplicatedGivenDistinctHeuristic ==
    (pc \in {"merged", "remerged"} /\ DistinctKeys(heuristic)) =>
        DistinctKeys(merged)

C7_Witness ==
    /\ pc = "merged"
    /\ DistinctKeys(heuristic)
    /\ Len(heuristic) = 2
    /\ Len(llm) = 2
    /\ Keys(llm) \subseteq Keys(heuristic)
    /\ llm[1].label_text # llm[2].label_text
    /\ Len(merged) = 2

(***************************************************************************)
(* order_fields                                                            *)
(***************************************************************************)
\* the key without the quantisation into rows
sort_key_NoRows(f) == <<f.page_index, f.label_bbox[2], f.label_bbox[1]>>

\* rows of 10 pixels
sort_key_TenPixelRows(f) == <<f.page_index, f.label_bbox[2] \div 10, f.label_bbox[1]>>

\* (f.page_index, y1 // 20, x1)
sort_key(f) == <<f.page_index, f.label_bbox[2] \div 20, f.label_bbox[1]>>

SortKeys(fs) == [i \in DOMAIN fs |-> sort_key(fs[i])]

\* the identifiers counted from 1
Renumber_FromOne(fs) ==
    [i \in DOMAIN fs |-> [fs[i] EXCEPT !.field_id = HeuristicId(i)]]

\* for i, f in enumerate(ordered): f.field_id = f"f{i:03d}"
Renumber(fs) ==
    [i \in DOMAIN fs |-> [fs[i] EXCEPT !.field_id = HeuristicId(i - 1)]]

\* the sort without the reassignment of the identifiers
order_fields_SortOnly(fs) == StableSort(fs, SortKeys(fs))

order_fields(fs) == Renumber(StableSort(fs, SortKeys(fs)))

OrderFields ==
    /\ pc = "order"
    /\ ordered' = order_fields(all_fields)
    /\ pc' = "ordered"
    /\ UNCHANGED <<page, all_fields, detectVars, mergeVars, uploadVars, appVars>>

(***************************************************************************)
(* Field lists to order: rows of 20 pixels met at and off their edges,     *)
(* provisional identifiers of both sources                                 *)
(***************************************************************************)
MaxFields == 3

OrderPages == {0, 1}
OrderY1 == {100, 119, 120}
OrderX1 == {50, 300}

Placed(pg, y1, x1) ==
    FormField(<<>>, pg, <<"N","a","m","e">>, TEXT,
              <<x1 + 80, y1, x1 + 200, y1 + 20>>, <<x1, y1, x1 + 70, y1 + 20>>,
              FALSE, 90)

\* the identifier a field carries into order_fields
ProvisionalId(f, k) == IF f.label_bbox[1] = 300 THEN LlmId(k) ELSE HeuristicId(0)

FieldLists ==
    {[k \in DOMAIN fs |-> [fs[k] EXCEPT !.field_id = ProvisionalId(fs[k], k)]] :
        fs \in SeqUpTo({Placed(pg, y1, x1) :
                pg \in OrderPages, y1 \in OrderY1, x1 \in OrderX1}, MaxFields)}

InitOrder ==
    /\ pc = "order"
    /\ page = NoPage
    /\ all_fields \in FieldLists
    /\ ordered = <<>>
    /\ IdleDetect /\ IdleMerge /\ IdleUpload /\ IdleApp

NextOrder == OrderFields

SpecOrder == InitOrder /\ [][NextOrder]_vars

(***************************************************************************)
(* Properties of order_fields                                              *)
(***************************************************************************)
ReadingKey(f) == <<f.page_index, f.label_bbox[2] \div 20, f.label_bbox[1]>>

\* C1: in the list order_fields returns, the key (page_index, y1 div 20, x1)
\* of each field is at most that of the next.
C1_OrderingInvariant ==
    pc = "ordered" =>
        \A i \in 1..(Len(ordered) - 1) :
            TripleLe(ReadingKey(ordered[i]), ReadingKey(ordered[i + 1]))

C1_Witness ==
    /\ pc = "ordered"
    /\ Len(ordered) = 3
    /\ \E i \in 1..2 :
            TripleLt(ReadingKey(all_fields[i + 1]), ReadingKey(all_fields[i]))
    /\ \E i \in 1..2 :
            /\ ordered[i].label_bbox[2] > ordered[i + 1].label_bbox[2]
            /\ ordered[i].page_index = ordered[i + 1].page_index

\* C2: the field at 0-based position i of the result has the identifier "f"
\* followed by i in three digits, whatever identifiers came in.
C2_IdentifierInvariant ==
    pc = "ordered" =>
        \A i \in DOMAIN ordered :
            ordered[i].field_id = <<"f">> \o Fmt03d(i - 1)

C2_Witness ==
    /\ pc = "ordered"
    /\ Len(ordered) = 3
    /\ \E i \in DOMAIN all_fields : all_fields[i].field_id[1] = "l"
    /\ \E i, j \in DOMAIN all_fields :
            i # j /\ all_fields[i].field_id = all_fields[j].field_id
    /\ ordered[1].field_id = <<"f", "0", "0", "0">>
    /\ ordered[3].field_id = <<"f", "0", "0", "2">>

(***************************************************************************)
(* detect_fields_llm.  A response is what the chat completion call gave:   *)
(* kind "unconfigured" (no key or no client package), "request_failed",    *)
(* "empty_content", "unparseable" (json.loads raises), "non_object" (the   *)
(* payload is no JSON object) or "object" with its member `fields`.  A     *)
(* JSON member is [t, v]: t is "missing", "bad" (a value of a type the     *)
(* code cannot convert) or the type it has.                                *)
(***************************************************************************)
\* FORMEASE_STOP_LABELS=office
ENV_STOP_LABELS == {<<"o","f","f","i","c","e">>}

Contains(s, c) == \E i \in DOMAIN s : s[i] = c

\* len([w for w in re.split(r"\s+", t) if w])
WordCount(t) ==
    Cardinality({i \in DOMAIN t :
        t[i] \notin Whitespace /\ (i = 1 \/ t[i - 1] \in Whitespace)})

StartsWith(t, w) == Len(t) >= Len(w) /\ SubSeq(t, 1, Len(w)) = w

\* re.match(r"^(The|This|These|Those)\b", t)
StartsLikeSentence(t) ==
    \E w \in {<<"T","h","e">>, <<"T","h","i","s">>, <<"T","h","e","s","e">>,
              <<"T","h","o","s","e">>} :
        StartsWith(t, w) /\ WordBoundary(t, Len(w) + 1)

_looks_like_instruction(text) ==
    LET t == Strip(text)
        word_count == WordCount(t)
    IN  \/ word_count >= 9 /\ ~Contains(t, ":") /\ ~Contains(t, "_")
        \/ t # <<>> /\ t[Len(t)] = "." /\ word_count >= 6
        \/ Contains(t, ",") /\ word_count >= 6 /\ ~Contains(t, "_")
        \/ StartsLikeSentence(t) /\ word_count >= 6

_field_type_from_value(value) == IF value \in FieldType THEN value ELSE TEXT

\* _as_int_bbox of a list of numbers
_as_int_bbox(values) == IF Len(values) # 4 THEN <<0, 0, 0, 0>> ELSE values

\* the lines of the page with a text, at most max_lines of them
_build_line_items(pg, max_lines) ==
    LET lns == group_into_lines(pg.ocr_blocks)
        items == SelectSeq(lns, LAMBDA l : Strip(LineText(l)) # <<>>)
    IN  [k \in 1..Min(Len(items), max_lines) |->
            [text |-> Strip(LineText(items[k])), bbox |-> LineBbox(items[k])]]

Member(t, v) == [t |-> t, v |-> v]
Missing == Member("missing", <<>>)
Bad == Member("bad", <<>>)

\* str(item.get("label_text", "")): a missing label is "", null is "None"
LabelString(m) ==
    IF m.t = "missing" THEN <<>>
    ELSE IF m.t = "bad" THEN <<"N","o","n","e">>
    ELSE m.v

\* what one item of raw_fields does to the loop:
\* "raise", "skip", or the field it appends
LlmItem(pg, regions, item, idx) ==
    IF item.t # "object" THEN [act |-> "raise"]
    ELSE LET label_text == clean_label(Strip(LabelString(item.label_text)))
         IN
         IF label_text = <<>> THEN [act |-> "skip"]
         ELSE IF Lower(Strip(label_text)) \in ENV_STOP_LABELS THEN [act |-> "skip"]
         ELSE IF _looks_like_instruction(label_text) THEN [act |-> "skip"]
         ELSE IF item.label_bbox.t = "bad" THEN [act |-> "raise"]
         ELSE LET ftype == _field_type_from_value(
                              IF item.field_type.t = "missing" THEN TEXT
                              ELSE item.field_type.v)
                  label_bbox == _as_int_bbox(
                              IF item.label_bbox.t = "missing" THEN <<>>
                              ELSE item.label_bbox.v)
              IN
              IF label_bbox = <<0, 0, 0, 0>> THEN [act |-> "skip"]
              ELSE LET near == find_nearest_input_region(label_bbox, regions,
                                                         MAX_DISTANCE)
                       inferred == near = NoRegion
                       tgt == IF inferred
                              THEN infer_answer_region(label_bbox, pg.width)
                              ELSE near
                       required ==
                            \/ item.required.t = "bool" /\ item.required.v
                            \/ is_required(label_text)
                   IN
                   IF inferred /\ classify_label(label_text) = None
                   THEN [act |-> "skip"]
                   ELSE IF item.confidence.t = "bad" THEN [act |-> "raise"]
                   ELSE [act |-> "append",
                         field |-> FormField(LlmId(idx), pg.page_index,
                            label_text, ftype, tgt, label_bbox, required,
                            IF item.confidence.t = "missing" THEN 70
                            ELSE item.confidence.v)]

Returned(fs) == [raised |-> FALSE, fields |-> fs]
Raised == [raised |-> TRUE, fields |-> <<>>]

RECURSIVE LlmLoop(_, _, _, _, _)
LlmLoop(pg, regions, raw_fields, k, acc) ==
    IF k > Len(raw_fields) THEN Returned(acc)
    ELSE LET r == LlmItem(pg, regions, raw_fields[k], k - 1)
         IN  IF r.act = "raise" THEN Raised
             ELSE LlmLoop(pg, regions, raw_fields, k + 1,
                          IF r.act = "append" THEN Append(acc, r.field) ELSE acc)

detect_fields_llm(pg, resp) ==
    IF resp.kind = "unconfigured" THEN Returned(<<>>)
    ELSE IF _build_line_items(pg, 200) = <<>> THEN Returned(<<>>)
    ELSE IF resp.kind = "request_failed" THEN Returned(<<>>)
    ELSE IF resp.kind \in {"unparseable", "non_object"} THEN Returned(<<>>)
    ELSE IF resp.kind = "empty_content" THEN Returned(<<>>)
    ELSE IF resp.fields.t = "missing" THEN Returned(<<>>)
    ELSE IF resp.fields.t = "bad" THEN Raised
    ELSE LlmLoop(pg, detect_input_regions(pg.image), resp.fields.v, 1, <<>>)

(***************************************************************************)
(* upload.  `response` lists what the chat completion call gave for each   *)
(* page so far; heuristic, llm and merged are the lists of the last page.  *)
(***************************************************************************)
MaxPages == 2
MaxItems == 1

LabelString_Date == Member("str", <<"D","a","t","e">>)
Box_Date == Member("list", <<50, 200, 120, 220>>)

Item(label, ftype, bbox, required, confidence) ==
    [t |-> "object", label_text |-> label, field_type |-> ftype,
     label_bbox |-> bbox, required |-> required, confidence |-> confidence]

NotAnObject ==
    [t |-> "not_object", label_text |-> Missing, field_type |-> Missing,
     label_bbox |-> Missing, required |-> Missing, confidence |-> Missing]

Items == {
    \* well-formed: the label of the page with more confidence, a new label
    Item(Member("str", <<"n","a","m","e",":">>), Member("str", TEXT),
         Member("list", <<50, 100, 120, 120>>), Member("bool", FALSE),
         Member("num", 95)),
    Item(LabelString_Date, Member("str", DATE), Box_Date,
         Member("bool", TRUE), Member("num", 80)),
    \* a new label that no pattern knows, with no region near it
    Item(Member("str", <<"A","m","o","u","n","t">>), Member("str", NUMBER),
         Box_Date, Member("bool", FALSE), Member("num", 80)),
    \* members missing
    Item(Missing, Member("str", DATE), Box_Date, Member("bool", FALSE),
         Member("num", 80)),
    Item(LabelString_Date, Missing, Missing, Missing, Member("num", 80)),
    Item(LabelString_Date, Missing, Box_Date, Missing, Missing),
    \* members of a wrong type
    Item(LabelString_Date, Member("str", DATE), Bad, Member("bool", FALSE),
         Member("num", 80)),
    Item(LabelString_Date, Member("str", DATE), Box_Date,
         Member("bool", FALSE), Bad),
    Item(LabelString_Date, Member("str", DATE),
         Member("list", <<50, 200, 120>>), Member("bool", FALSE),
         Member("num", 80)),
    \* a box of no width and no height
    Item(LabelString_Date, Member("str", DATE),
         Member("list", <<50, 200, 50, 200>>), Member("bool", FALSE),
         Member("num", 80)),
    NotAnObject }

Response(kind, fs) == [kind |-> kind, fields |-> fs]

Responses ==
    {Response(k, Missing) :
        k \in {"unconfigured", "request_failed", "empty_content",
               "unparseable", "non_object", "object"}}
    \cup {Response("object", Bad)}
    \cup {Response("object", Member("list", its)) : its \in SeqUpTo(Items, MaxItems)}

\* what OCR makes of a page image
Scans == {
    TextPage(<<>>),
    TextPage(<< <<"N","a","m","e",":">> >>),
    GeomPage(<<50, 100, 120, 120>>,
             [decodable |-> TRUE, segments |-> <<>>,
              rects |-> << <<130, 95, 270, 26>> >>], 1000) }

\* one iteration of the loop over the page images
UploadPage ==
    /\ pc = "upload"
    /\ Len(doc.pages) < MaxPages
    /\ \E scan \in Scans, resp \in Responses :
        LET pg == [scan EXCEPT !.page_index = Len(doc.pages)]
            heuristic_fields == detect_fields(pg)
            r == detect_fields_llm(pg, resp)
            page_fields == merge_fields(heuristic_fields, r.fields)
        IN  /\ page' = pg
            /\ response' = Append(response, resp)
            /\ heuristic' = heuristic_fields
            /\ IF r.raised
               THEN \* except Exception: "Upload failed", 500
                    /\ status' = 500
                    /\ pc' = "replied"
                    /\ doc' = [doc EXCEPT !.pages = Append(@, pg)]
                    /\ UNCHANGED <<llm, merged, all_fields>>
               ELSE /\ llm' = r.fields
                    /\ merged' = page_fields
                    /\ all_fields' = all_fields \o page_fields
                    /\ doc' = [doc EXCEPT !.pages = Append(@, pg)]
                    /\ UNCHANGED <<pc, status>>
    /\ UNCHANGED <<detectVars, ordered, appVars>>

\* the images are through: order the fields, store, reply
UploadStore ==
    /\ pc = "upload"
    /\ Len(doc.pages) >= 1
    /\ ordered' = order_fields(all_fields)
    /\ doc' = [doc EXCEPT !.fields = order_fields(all_fields)]
    /\ status' = 200
    /\ pc' = "replied"
    /\ UNCHANGED <<page, all_fields, response, detectVars, mergeVars, appVars>>

\* no document, an empty file, or a file that does not decode
UploadReject ==
    /\ pc = "upload"
    /\ doc.pages = <<>>
    /\ status' = 400
    /\ pc' = "replied"
    /\ UNCHANGED <<page, doc, response, detectVars, mergeVars, orderVars, appVars>>

InitUpload ==
    /\ pc = "upload"
    /\ page = NoPage
    /\ response = <<>>
    /\ doc = NoDocument
    /\ status = 0
    /\ IdleDetect /\ IdleMerge /\ IdleOrder /\ IdleApp

NextUpload == UploadPage \/ UploadStore \/ UploadReject

SpecUpload == InitUpload /\ [][NextUpload]_vars

(***************************************************************************)
(* Properties of upload                                                    *)
(***************************************************************************)
ItemMalformed(item) ==
    \/ item.t # "object"
    \/ \E m \in {item.label_text, item.field_type, item.label_bbox,
                 item.required, item.confidence} : m.t \in {"missing", "bad"}
    \/ item.label_bbox.t = "list" /\ Len(item.label_bbox.v) # 4

\* the extractor is unreachable or misconfigured, its request fails, or its
\* response is malformed
ExtractorFails(resp) ==
    \/ resp.kind \in {"unconfigured", "request_failed", "unparseable", "non_object"}
    \/ resp.kind = "object" /\ resp.fields.t \in {"missing", "bad"}
    \/ resp.kind = "object" /\ resp.fields.t = "list"
        /\ \E k \in DOMAIN resp.fields.v : ItemMalformed(resp.fields.v[k])

RECURSIVE HeuristicOnly(_)
HeuristicOnly(pages) ==
    IF pages = <<>> THEN <<>>
    ELSE detect_fields(Head(pages)) \o HeuristicOnly(Tail(pages))

\* C10: when the extractor fails in one of these ways on every page, no error
\* is propagated and the upload completes with the ordered heuristic fields.
C10_GracefulDegradation ==
    (/\ pc = "replied"
     /\ response # <<>>
     /\ \A k \in DOMAIN response : ExtractorFails(response[k])) =>
        /\ status = 200
        /\ doc.fields = order_fields(HeuristicOnly(doc.pages))

(***************************************************************************)
(* validate_field.  re.match(r"^...$", answer) on a stripped answer is a   *)
(* match of the whole answer.                                              *)
(***************************************************************************)
Chars ==
    WordChars \cup Whitespace \cup {"@", ".", "-", "+", "(", ")", "/", ",", ":", "*"}

One(cs) == <<[cs |-> cs, q |-> "1"]>>
Plus(cs) == One(cs) \o Star(cs)
Times(cs, n) == [i \in 1..n |-> [cs |-> cs, q |-> "1"]]

FullMatch(atoms, s) == (Len(s) + 1) \in MatchEnds(atoms, 1, s, 1)

\* str.isdigit()
IsDigit(s) == s # <<>> /\ \A i \in DOMAIN s : s[i] \in Digits

\* re.sub / str.replace of single characters by ""
Without(s, cs) == SelectSeq(s, LAMBDA c : c \notin cs)

\* ^[^@\s]+@[^@\s]+\.[^@\s]+$
NotAtOrSpace == Chars \ ({"@"} \cup Whitespace)
EmailPattern ==
    Plus(NotAtOrSpace) \o One({"@"}) \o Plus(NotAtOrSpace) \o One({"."})
    \o Plus(NotAtOrSpace)

\* ^\d{1,2}[/\-]\d{1,2}[/\-]\d{2,4}$ and ^\d{4}[/\-]\d{1,2}[/\-]\d{1,2}$
DatePatterns == <<
    One(Digits) \o Opt(Digits) \o One({"/", "-"}) \o One(Digits) \o Opt(Digits)
    \o One({"/", "-"}) \o Times(Digits, 2) \o Opt(Digits) \o Opt(Digits),
    Times(Digits, 4) \o One({"/", "-"}) \o One(Digits) \o Opt(Digits)
    \o One({"/", "-"}) \o One(Digits) \o Opt(Digits) >>

\* ^[STFGM]\d{7}[A-Z]$ on answer.upper(): the match folds the case
NricPattern == One({"s", "t", "f", "g", "m"}) \o Times(Digits, 7) \o One(LowerLetters)

Valid == [valid |-> TRUE, message |-> None]
Invalid(msg) == [valid |-> FALSE, message |-> msg]

\* len(digits) < 7 or len(digits) > 14
PhoneLengthOk_Max14(digits) == Len(digits) >= 7 /\ Len(digits) <= 14

\* len(digits) < 7 or len(digits) > 15
PhoneLengthOk(digits) == Len(digits) >= 7 /\ Len(digits) <= 15

PhoneDigits(answer) == Without(answer, Whitespace \cup {"-", "+", "(", ")"})

validate_field(ftype, raw) ==
    IF Strip(raw) = <<>> THEN Valid
    ELSE LET answer == Strip(raw)
         IN  IF ftype = EMAIL
             THEN IF ~FullMatch(EmailPattern, answer)
                  THEN Invalid("Please enter a valid email address (must contain @).")
                  ELSE Valid
             ELSE IF ftype = PHONE
             THEN IF ~IsDigit(PhoneDigits(answer)) \/ ~PhoneLengthOk(PhoneDigits(answer))
                  THEN Invalid("Please enter a valid phone number (7-15 digits).")
                  ELSE Valid
             ELSE IF ftype = DATE
             THEN IF ~\E k \in DOMAIN DatePatterns : FullMatch(DatePatterns[k], answer)
                  THEN Invalid("Please enter a valid date (DD/MM/YYYY or YYYY-MM-DD).")
                  ELSE Valid
             ELSE IF ftype = NRIC
             THEN IF ~FullMatch(NricPattern, answer)
                  THEN Invalid("Please enter a valid NRIC/FIN (e.g., S1234567A).")
                  ELSE Valid
             ELSE IF ftype = NUMBER
             THEN IF ~IsDigit(Without(answer, {".", "-", ","}))
                  THEN Invalid("Please enter a number.")
                  ELSE Valid
             ELSE Valid

(***************************************************************************)
(* validate_field on its own: the answers are runs of digits of every      *)
(* length up to MaxDigits with one mark put in, padded or not, and a list  *)
(* of answers of the other types.                                          *)
(***************************************************************************)
MaxDigits == 16

DigitRun(n) == [i \in 1..n |-> DigitChars[(i % 10) + 1]]
Insert(s, k, m) ==
    SubSeq(s, 1, Min(k, Len(s))) \o m \o SubSeq(s, Min(k, Len(s)) + 1, Len(s))

Marks == {<<>>, <<" ">>, <<"\t">>, <<"-">>, <<"(">>, <<")">>, <<"+">>,
          <<"a">>, <<".">>, <<",">>, <<"/">>, <<"@">>}

DigitAnswers ==
    {pad \o Insert(DigitRun(n), k, m) \o pad :
        n \in 0..MaxDigits, k \in {0, 3}, m \in Marks, pad \in {<<>>, <<" ">>}}

OtherAnswers == {
    <<"a", "@", "b", ".", "c">>,
    <<"a", "@", "b">>,
    <<"a", " ", "b", "@", "c", ".", "d">>,
    <<"a", "@", "@", "b", ".", "c">>,
    <<"A", "@", "B", ".", "C", "O">>,
    <<"@", "b", ".", "c">>,
    <<"a", "@", "b", ".">>,
    <<"1", "/", "2", "/", "0", "3">>,
    <<"0", "1", "-", "0", "2", "-", "2", "0", "0", "3">>,
    <<"2", "0", "2", "4", "-", "1", "-", "2">>,
    <<"2", "0", "2", "4", "/", "0", "1", "/", "0", "2">>,
    <<"1", "/", "2", "/", "3">>,
    <<"1", "2", "/", "1", "2", "/", "1", "2", "3", "4", "5">>,
    <<"2", "0", "2", "4", "-", "0", "1">>,
    <<"S", "1", "2", "3", "4", "5", "6", "7", "A">>,
    <<"s", "1", "2", "3", "4", "5", "6", "7", "a">>,
    <<"X", "1", "2", "3", "4", "5", "6", "7", "A">>,
    <<"S", "1", "2", "3", "4", "5", "6", "A">>,
    <<"S", "1", "2", "3", "4", "5", "6", "7">>,
    <<"1", ",", "2", "3", "4", ".", "5">>,
    <<"-", "5">>,
    <<".">>,
    <<"a", "b", "c">>,
    <<"1", " ", "2">>,
    <<"+", "6", "5", " ", "(", "6", "1", "2", "3", ")", " ", "4", "5", "6", "7">>,
    <<"(", "+", ")">>,
    <<" ", "\t", " ">> }

Answers == DigitAnswers \cup OtherAnswers

ValidateField ==
    /\ pc = "validate_field"
    /\ reply' = validate_field(request.field_type, request.answer)
    /\ pc' = "validated"
    /\ UNCHANGED <<page, detectVars, mergeVars, orderVars, uploadVars,
                   sessions, uuids, now, request, threadVars>>

InitValidate ==
    /\ pc = "validate_field"
    /\ page = NoPage
    /\ \E ft \in FieldType, a \in Answers :
        request = [route |-> "validate_field", field_type |-> ft, answer |-> a]
    /\ sessions = <<>> /\ uuids = 0 /\ now = 0 /\ reply = NoReply
    /\ IdleDetect /\ IdleMerge /\ IdleOrder /\ IdleUpload /\ IdleThreads

NextValidate == ValidateField

SpecValidate == InitValidate /\ [][NextValidate]_vars

(***************************************************************************)
(* Properties of validate_field                                            *)
(***************************************************************************)
Validated == pc = "validated"
NonBlank(a) == \E i \in DOMAIN a : a[i] \notin Whitespace

\* the answer without its spaces (white space), dashes, parentheses and plus signs
Bare(a) == SelectSeq(a, LAMBDA c : ~(c \in Whitespace \/ c \in {"-", "(", ")", "+"}))
DigitCount(a) == Cardinality({i \in DOMAIN a : a[i] \in Digits})
OnlyDigits(a) == DigitCount(a) = Len(a)

\* C12: for PHONE and a non-blank answer, validate_field returns valid exactly
\* when the answer without spaces, dashes, parentheses and plus signs is
\* digits only and has 7 to 15 of them.
C12_PhoneValidation ==
    (Validated /\ request.field_type = PHONE /\ NonBlank(request.answer)) =>
        (reply.valid <=>
            /\ OnlyDigits(Bare(request.answer))
            /\ DigitCount(Bare(request.answer)) >= 7
            /\ DigitCount(Bare(request.answer)) <= 15)

\* fifteen digits with a dash after the third are accepted
C12_Witness ==
    /\ Validated
    /\ request.field_type = PHONE
    /\ request.answer = Insert(DigitRun(15), 3, <<"-">>)
    /\ reply.valid

(***************************************************************************)
(* The application: the session store and its routes.  A session id is the *)
(* ordinal of the uuid4 drawn for the document; a stored document keeps    *)
(* its fields and its creation time.  Each action is one request, served   *)
(* from its first line to its reply.                                       *)
(***************************************************************************)
MaxUploads == 2
MaxTicks == 2

SESSION_TTL == 3600

\* the sessions of ss that are not older than SESSION_TTL at time t
_cleanup_sessions(ss, t) ==
    LET expired == {sid \in DOMAIN ss : t - ss[sid].created > SESSION_TTL}
    IN  [sid \in DOMAIN ss \ expired |-> ss[sid]]

\* the loop over the page images: the fused fields of the pages, or an exception
RECURSIVE UploadPages(_, _, _)
UploadPages(images, i, acc) ==
    IF i > Len(images) THEN Returned(acc)
    ELSE LET pg == [images[i].scan EXCEPT !.page_index = i - 1]
             r == detect_fields_llm(pg, images[i].resp)
         IN  IF r.raised THEN Raised
             ELSE UploadPages(images, i + 1,
                              acc \o merge_fields(detect_fields(pg), r.fields))

\* next((f for f in doc.fields if f.field_id == field_id), None): its index, or 0
FindField(fs, field_id) ==
    IF \E i \in DOMAIN fs : fs[i].field_id = field_id
    THEN CHOOSE i \in DOMAIN fs :
            /\ fs[i].field_id = field_id
            /\ \A j \in 1..(i - 1) : fs[j].field_id # field_id
    ELSE 0

Reply(st) == [status |-> st]

\* what a client uploads: nothing that decodes, or page images with what OCR
\* and the chat completion call make of each
Unconfigured == Response("unconfigured", Missing)
Image(scan, resp) == [scan |-> scan, resp |-> resp]
Form(kind, images) == [kind |-> kind, images |-> images]

NamePage == TextPage(<< <<"N","a","m","e",":">> >>)
PhoneStarPage == TextPage(<< <<"P","h","o","n","e">>, <<"*">> >>)
Forms == {
    Form("no_document", <<>>),
    Form("images", <<Image(NamePage, Unconfigured), Image(PhoneStarPage, Unconfigured)>>),
    Form("images", <<Image(NamePage, Response("object", Bad))>>) }

SessionIds == 0..MaxUploads
FieldIds == {HeuristicId(0), HeuristicId(1), LlmId(0)}

\* POST /upload
Upload ==
    /\ pc = "app"
    /\ uuids < MaxUploads
    /\ \E form \in Forms :
        LET kept == _cleanup_sessions(sessions, now)
            r == UploadPages(form.images, 1, <<>>)
        IN  /\ request' = [route |-> "upload", form |-> form]
            /\ IF form.kind = "no_document"
               THEN /\ sessions' = kept
                    /\ reply' = Reply(400)
                    /\ UNCHANGED uuids
               ELSE IF r.raised
               THEN /\ sessions' = kept
                    /\ reply' = Reply(500)
                    /\ uuids' = uuids + 1
               ELSE /\ sessions' = ((uuids + 1) :>
                            [fields |-> order_fields(r.fields), created |-> now])
                            @@ kept
                    /\ reply' = [status |-> 200, session_id |-> uuids + 1,
                                 total_steps |-> Len(r.fields)]
                    /\ uuids' = uuids + 1
    /\ UNCHANGED <<pc, page, now, detectVars, mergeVars, orderVars, uploadVars, threadVars>>

\* the document and the field a request names: a reply of 404, or the field's index
Lookup(session_id, field_id) ==
    IF session_id \notin DOMAIN sessions THEN 0
    ELSE FindField(sessions[session_id].fields, field_id)

\* GET /tts/<session_id>/<field_id>: the label is translated and spoken by the
\* collaborators; generate_tts may raise
Tts ==
    /\ pc = "app"
    /\ \E session_id \in SessionIds, field_id \in FieldIds, spoken \in BOOLEAN :
        LET i == Lookup(session_id, field_id)
        IN  /\ request' = [route |-> "tts", session_id |-> session_id,
                           field_id |-> field_id]
            /\ reply' =
                IF i = 0 THEN Reply(404)
                ELSE IF ~spoken THEN Reply(503)
                ELSE [status |-> 200,
                      original |-> sessions[session_id].fields[i].label_text]
    /\ UNCHANGED <<pc, page, sessions, uuids, now, detectVars, mergeVars,
                   orderVars, uploadVars, threadVars>>

\* POST /translate: translate_text gives the label back when it fails
Translate ==
    /\ pc = "app"
    /\ \E session_id \in SessionIds, field_id \in FieldIds :
        LET i == Lookup(session_id, field_id)
        IN  /\ request' = [route |-> "translate", session_id |-> session_id,
                           field_id |-> field_id]
            /\ reply' =
                IF i = 0 THEN Reply(404)
                ELSE [status |-> 200,
                      original |-> sessions[session_id].fields[i].label_text]
    /\ UNCHANGED <<pc, page, sessions, uuids, now, detectVars, mergeVars,
                   orderVars, uploadVars, threadVars>>

\* the "answer" member of a /validate body: absent, a number, a string
ValidateAnswers ==
    {Missing, Member("num", 5), Member("str", DigitRun(7))}

\* data.get("answer", "")
AnswerOf(m) == IF m.t = "missing" THEN <<>> ELSE m.v

\* POST /validate
Validate ==
    /\ pc = "app"
    /\ \E session_id \in SessionIds, field_id \in FieldIds, answer \in ValidateAnswers :
        LET i == Lookup(session_id, field_id)
            field == sessions[session_id].fields[i]
            r == validate_field(field.field_type, AnswerOf(answer))
        IN  /\ request' = [route |-> "validate", session_id |-> session_id,
                           field_id |-> field_id, answer |-> answer]
            /\ reply' =
                IF i = 0 THEN Reply(404)
                ELSE IF answer.t \notin {"missing", "str"}
                THEN \* answer.strip(): AttributeError, no handler catches it
                     [status |-> 500, raised |-> TRUE]
                ELSE IF field.required /\ Strip(AnswerOf(answer)) = <<>>
                THEN [status |-> 200, valid |-> FALSE,
                      message |-> "This field is required.", confirmation |-> FALSE]
                ELSE [status |-> 200, valid |-> r.valid, message |-> r.message,
                      confirmation |-> r.valid /\ Strip(AnswerOf(answer)) # <<>>]
    /\ UNCHANGED <<pc, page, sessions, uuids, now, detectVars, mergeVars,
                   orderVars, uploadVars, threadVars>>

\* the "answers" member of a /save-answers body: an object, a list, null
SavedAnswers ==
    {Member("object", <<>>),
     Member("object", (HeuristicId(1) :> <<"y">>) @@ (LlmId(0) :> <<"z">>)),
     Member("list", {HeuristicId(1)}),
     Member("null", <<>>)}

\* for field in doc.fields: if field.field_id in answers: field.answer = ...
save_answers(fs, answers) ==
    [i \in DOMAIN fs |->
        IF fs[i].field_id \in DOMAIN answers
        THEN [fs[i] EXCEPT !.answer = answers[fs[i].field_id]]
        ELSE fs[i]]

\* POST /save-answers
SaveAnswers ==
    /\ pc = "app"
    /\ \E session_id \in SessionIds, answers \in SavedAnswers :
        LET fs == sessions[session_id].fields
            saved == save_answers(fs, answers.v)
            raises ==
                \/ answers.t = "null" /\ fs # <<>>
                \/ answers.t = "list" /\ \E i \in DOMAIN fs : fs[i].field_id \in answers.v
        IN  /\ request' = [route |-> "save_answers", session_id |-> session_id,
                           answers |-> answers]
            /\ IF session_id \notin DOMAIN sessions
               THEN reply' = Reply(404) /\ UNCHANGED sessions
               ELSE IF answers.t # "object"
               THEN \* TypeError at the first field the test or the index fails on
                    /\ reply' = IF raises THEN [status |-> 500, raised |-> TRUE]
                                ELSE [status |-> 200,
                                      answered |-> Len(SelectSeq(fs, LAMBDA f : f.answer # <<>>)),
                                      total |-> Len(fs)]
                    /\ UNCHANGED sessions
               ELSE /\ sessions' = [sessions EXCEPT ![session_id].fields = saved]
                    /\ reply' = [status |-> 200,
                                 answered |-> Len(SelectSeq(saved, LAMBDA f : f.answer # <<>>)),
                                 total |-> Len(fs)]
    /\ UNCHANGED <<pc, page, uuids, now, detectVars, mergeVars, orderVars, uploadVars, threadVars>>

\* POST /export
Export ==
    /\ pc = "app"
    /\ \E session_id \in SessionIds, rendered \in BOOLEAN :
        /\ request' = [route |-> "export", session_id |-> session_id]
        /\ reply' =
            IF session_id \notin DOMAIN sessions THEN Reply(404)
            ELSE IF ~rendered THEN Reply(500)
            ELSE [status |-> 200,
                  answers |-> [i \in DOMAIN sessions[session_id].fields |->
                                sessions[session_id].fields[i].answer]]
    /\ UNCHANGED <<pc, page, sessions, uuids, now, detectVars, mergeVars,
                   orderVars, uploadVars, threadVars>>

\* time passes between requests, half of SESSION_TTL and a second at a time
HalfTtl == SESSION_TTL \div 2 + 1

Tick ==
    /\ pc = "app"
    /\ now + HalfTtl <= MaxTicks * HalfTtl
    /\ now' = now + HalfTtl
    /\ UNCHANGED <<pc, page, sessions, uuids, request, reply, detectVars,
                   mergeVars, orderVars, uploadVars, threadVars>>

InitApp ==
    /\ pc = "app"
    /\ page = NoPage
    /\ IdleDetect /\ IdleMerge /\ IdleOrder /\ IdleUpload /\ IdleApp

NextApp == Upload \/ Tts \/ Translate \/ Validate \/ SaveAnswers \/ Export \/ Tick

SpecApp == InitApp /\ [][NextApp]_vars

(***************************************************************************)
(* Properties of the application                                           *)
(***************************************************************************)
\* C11: in every stored document, whatever requests were served since its
\* upload, the field_ids are pairwise distinct and the field at position i
\* (from 0) has the id "f" and i in three digits.
C11_StoredIdsReflectRank ==
    \A sid \in DOMAIN sessions :
        LET fs == sessions[sid].fields
        IN  /\ \A i \in DOMAIN fs : fs[i].field_id = <<"f">> \o Fmt03d(i - 1)
            /\ \A i, j \in DOMAIN fs : i # j => fs[i].field_id # fs[j].field_id

\* a two-field document that had an answer saved, outlived half its time to
\* live and the upload of another document, and was then exported
C11_Witness ==
    /\ DOMAIN sessions = {1, 2}
    /\ Len(sessions[1].fields) = 2
    /\ sessions[1].fields[2].answer = <<"y">>
    /\ now > sessions[1].created
    /\ sessions[2].created > sessions[1].created
    /\ request = [route |-> "export", session_id |-> 1]
    /\ reply.status = 200

\* C13: a /validate request that finds its field is answered with a boolean
\* and a message or none, whatever the answer it carries, and an empty or
\* whitespace-only answer to a field that is not required is valid with no
\* message.
C13_ValidationNeverRaises ==
    (request.route = "validate" /\ reply.status # 404) =>
        /\ reply.status = 200
        /\ "valid" \in DOMAIN reply
        /\ reply.valid \in BOOLEAN
        /\ (/\ request.answer.t \in {"missing", "str"}
            /\ Strip(AnswerOf(request.answer)) = <<>>
            /\ ~sessions[request.session_id].fields[
                    FindField(sessions[request.session_id].fields,
                              request.field_id)].required)
            => (reply.valid /\ reply.message = None)

(***************************************************************************)
(* Further properties of order_fields                                      *)
(***************************************************************************)
SamePage(a, b) == a.page_index = b.page_index
Y1(f) == f.label_bbox[2]
X1(f) == f.label_bbox[1]

Placings(n) == {p \in [1..n -> 1..n] : \A i, j \in 1..n : i # j => p[i] # p[j]}

\* C19: the result is the argument rearranged: some one-to-one placing p puts
\* every field of the argument in the result with nothing but its field_id
\* changed, and keeps the order of fields with equal sort keys.
C19_OrderIsStablePermutation ==
    pc = "ordered" =>
        /\ Len(ordered) = Len(all_fields)
        /\ \E p \in Placings(Len(all_fields)) :
            /\ \A k \in DOMAIN all_fields :
                ordered[p[k]] =
                    [all_fields[k] EXCEPT !.field_id = ordered[p[k]].field_id]
            /\ \A i, j \in DOMAIN all_fields :
                (i < j /\ ReadingKey(all_fields[i]) = ReadingKey(all_fields[j]))
                    => p[i] < p[j]

\* three fields out of order, two of them with one key and different boxes:
\* these two keep their order behind the third
C19_Witness ==
    /\ pc = "ordered"
    /\ Len(all_fields) = 3
    /\ ReadingKey(all_fields[1]) = ReadingKey(all_fields[2])
    /\ Y1(all_fields[1]) = 119 /\ Y1(all_fields[2]) = 100
    /\ TripleLt(ReadingKey(all_fields[3]), ReadingKey(all_fields[1]))
    /\ Y1(ordered[2]) = 119 /\ Y1(ordered[3]) = 100

(***************************************************************************)
(* Further properties of detect_fields                                     *)
(***************************************************************************)
\* the candidates in iteration order that qualify under the cap, by index
UnderCap ==
    {k \in DOMAIN input_regions :
        /\ Qualifies(CurLabel, input_regions[k])
        /\ BranchDistance(CurLabel, input_regions[k]) < 200}

Nearest ==
    {k \in UnderCap : \A j \in UnderCap :
        BranchDistance(CurLabel, input_regions[k])
            <= BranchDistance(CurLabel, input_regions[j])}

\* C15: when candidates qualify under the cap, the region returned is the
\* first in iteration order of those at the smallest distance (the distance
\* being the one the loop computes for a candidate).
C15_FirstOfTheNearest ==
    (LineAssociated /\ UnderCap # {}) =>
        target = input_regions[CHOOSE k \in Nearest : \A j \in Nearest : k <= j]

\* two different candidates 10 to the right of the label: the first is returned
C15_Witness ==
    /\ LineAssociated
    /\ Cardinality(Nearest) = 2
    /\ \E j, k \in Nearest :
        /\ j < k
        /\ input_regions[j] # input_regions[k]
        /\ target = input_regions[j]
        /\ LastField.target_bbox = input_regions[j]

WellFormed(box) == box[1] <= box[3] /\ box[2] <= box[4]

\* C20: on a page of positive width whose token boxes are well formed, every
\* field detect_fields emits has a target_bbox with x1 <= x2 and y1 <= y2.
C20_TargetWellFormed ==
    (/\ pc \in {"detect_loop", "detected"}
     /\ page.width > 0
     /\ \A k \in DOMAIN page.ocr_blocks : WellFormed(page.ocr_blocks[k].bbox)) =>
        \A k \in DOMAIN fields : WellFormed(fields[k].target_bbox)

(***************************************************************************)
(* clean_label on its own: request holds the text, reply the label         *)
(***************************************************************************)
MaxLabelLen == 4

LabelChars == {"a", ":", "*", " ", "\t"}

CleanLabel ==
    /\ pc = "clean_label"
    /\ reply' = [label |-> clean_label(request.text)]
    /\ pc' = "cleaned"
    /\ UNCHANGED <<page, detectVars, mergeVars, orderVars, uploadVars,
                   sessions, uuids, now, request, threadVars>>

InitClean ==
    /\ pc = "clean_label"
    /\ page = NoPage
    /\ \E t \in SeqUpTo(LabelChars, MaxLabelLen) :
        request = [route |-> "clean_label", text |-> t]
    /\ sessions = <<>> /\ uuids = 0 /\ now = 0 /\ reply = NoReply
    /\ IdleDetect /\ IdleMerge /\ IdleOrder /\ IdleUpload /\ IdleThreads

NextClean == CleanLabel

SpecClean == InitClean /\ [][NextClean]_vars

\* C16: the result of clean_label has no leading or trailing whitespace, no
\* two consecutive whitespace characters, and does not end with a colon or
\* an asterisk.
C16_LabelIsClean ==
    pc = "cleaned" =>
        LET s == reply.label
        IN  /\ s # <<>> => (s[1] \notin Whitespace /\ s[Len(s)] \notin Whitespace)
            /\ \A i \in 1..(Len(s) - 1) :
                ~(s[i] \in Whitespace /\ s[i + 1] \in Whitespace)
            /\ s # <<>> => s[Len(s)] \notin {":", "*"}

(***************************************************************************)
(* group_into_lines on its own: blocks of two levels, of three lines in    *)
(* two blocks of text and of two columns, in any order                     *)
(***************************************************************************)
MaxBlocks == 4

GroupBlocks ==
    {[text |-> <<"a">>, bbox |-> <<x1, 100, x1 + 70, 120>>, confidence |-> 90,
      level |-> lv, block_num |-> key[1], line_num |-> key[2], word_num |-> 1] :
        x1 \in {50, 130}, lv \in {4, 5}, key \in {<<1, 1>>, <<1, 2>>, <<2, 1>>}}

GroupIntoLines ==
    /\ pc = "group"
    /\ lines' = group_into_lines(page.ocr_blocks)
    /\ pc' = "grouped"
    /\ UNCHANGED <<page, input_regions, li, line_text, field_type, target, fields,
                   mergeVars, orderVars, uploadVars, appVars>>

InitGroup ==
    /\ pc = "group"
    /\ \E bs \in SeqUpTo(GroupBlocks, MaxBlocks) :
        page = [page_index |-> 0, width |-> 1000, image |-> NoImage, ocr_blocks |-> bs]
    /\ IdleDetect /\ IdleMerge /\ IdleOrder /\ IdleUpload /\ IdleApp

NextGroup == GroupIntoLines

SpecGroup == InitGroup /\ [][NextGroup]_vars

Count(s, b) == Cardinality({i \in DOMAIN s : s[i] = b})

RECURSIVE Flatten(_)
Flatten(ls) == IF ls = <<>> THEN <<>> ELSE Head(ls) \o Flatten(Tail(ls))

LineKey(b) == <<b.block_num, b.line_num>>

\* C17: the lines hold every word-level token exactly once and no other
\* token, each line holds the tokens of one (block_num, line_num) in
\* non-decreasing x1, and the lines are in strictly ascending
\* (block_num, line_num) order.
C17_LinesPartitionWords ==
    pc = "grouped" =>
        /\ \A i \in DOMAIN page.ocr_blocks :
            Count(Flatten(lines), page.ocr_blocks[i]) =
                IF page.ocr_blocks[i].level = 5
                THEN Count(page.ocr_blocks, page.ocr_blocks[i]) ELSE 0
        /\ \A i \in DOMAIN Flatten(lines) :
            \E k \in DOMAIN page.ocr_blocks : page.ocr_blocks[k] = Flatten(lines)[i]
        /\ \A p \in DOMAIN lines :
            /\ lines[p] # <<>>
            /\ \A i, j \in DOMAIN lines[p] :
                /\ LineKey(lines[p][i]) = LineKey(lines[p][j])
                /\ i < j => lines[p][i].bbox[1] <= lines[p][j].bbox[1]
        /\ \A p, q \in DOMAIN lines :
            p < q => PairLt(LineKey(lines[p][1]), LineKey(lines[q][1]))

\* a line-level block, and three words given right to left and last line first
C17_Witness ==
    /\ pc = "grouped"
    /\ Len(page.ocr_blocks) = 4
    /\ page.ocr_blocks[1].level = 4
    /\ LineKey(page.ocr_blocks[2]) = <<2, 1>> /\ page.ocr_blocks[2].level = 5
    /\ LineKey(page.ocr_blocks[3]) = <<1, 2>> /\ page.ocr_blocks[3].level = 5
    /\ LineKey(page.ocr_blocks[4]) = <<1, 2>> /\ page.ocr_blocks[4].level = 5
    /\ page.ocr_blocks[3].bbox[1] > page.ocr_blocks[4].bbox[1]
    /\ lines = << <<page.ocr_blocks[4], page.ocr_blocks[3]>>, <<page.ocr_blocks[2]>> >>

(***************************************************************************)
(* Further properties of detect_fields_llm                                 *)
(***************************************************************************)
\* C18: every field detect_fields_llm returns has a label_bbox of positive
\* width and positive height.
C18_LlmBoxesNotDegenerate ==
    \A k \in DOMAIN llm :
        /\ llm[k].label_bbox[1] < llm[k].label_bbox[3]
        /\ llm[k].label_bbox[2] < llm[k].label_bbox[4]

(***************************************************************************)
(* Uploads served at once.  app.run serves each request in a thread of its *)
(* own, and the threads share the module's sessions dict.  A thread may be *)
(* switched out between any two steps below: between reading the clock and *)
(* each advance of the iteration over sessions.items(), between the        *)
(* comprehension and each del, and between _cleanup_sessions and the       *)
(* insertion of the new document.  entries is the dict's array of entries  *)
(* in insertion order, 0 standing for the slot of a deleted key; the dict  *)
(* is not resized within these bounds.                                     *)
(***************************************************************************)
MaxThreads == 2
MaxRequests == 3

Threads == 1..MaxThreads

IdleThread ==
    [pc |-> "idle", now |-> 0, di_used |-> 0, di_pos |-> 0, len |-> 0,
     expired |-> <<>>, stale |-> {}, document_id |-> 0, created |-> 0,
     status |-> 0, raised |-> "none"]

\* len(sessions)
Used == Cardinality(DOMAIN sessions)

\* the sessions older than SESSION_TTL at time t
Expired(t) == {sid \in DOMAIN sessions : t - sessions[sid].created > SESSION_TTL}

\* upload is entered: _cleanup_sessions reads the clock and opens the
\* iteration over sessions.items()
Begin(t) ==
    /\ pc = "app"
    /\ threads[t].pc = "idle"
    /\ started < MaxRequests
    /\ started' = started + 1
    /\ threads' = [threads EXCEPT ![t] =
            [IdleThread EXCEPT !.pc = "expired", !.now = now, !.di_used = Used,
                               !.len = Used, !.stale = Expired(now)]]
    /\ UNCHANGED <<pc, page, sessions, entries, uuids, now, request, reply,
                   detectVars, mergeVars, orderVars, uploadVars>>

\* the request of thread t ends with a reply of status st
Ends(t, st) == [threads EXCEPT ![t] = [IdleThread EXCEPT !.status = st]]

\* the request of thread t ends with an exception nothing catches
Raise(t, exception) ==
    [threads EXCEPT ![t] = [IdleThread EXCEPT !.status = 500, !.raised = exception]]

\* the slots after position p that hold a key
SlotsAfter(p) == {i \in DOMAIN entries : i > p /\ entries[i] # 0}

\* one advance of the dict iterator inside the comprehension, with the test
\* of the item it yields
NextItem(t) ==
    /\ pc = "app"
    /\ threads[t].pc = "expired"
    /\ LET th == threads[t]
           i == SetMin(SlotsAfter(th.di_pos))
           sid == entries[i]
       IN  threads' =
             IF th.di_used # Used
             THEN Raise(t, "RuntimeError")
             ELSE IF SlotsAfter(th.di_pos) = {}
             THEN [threads EXCEPT ![t].pc =
                        IF th.expired = <<>> THEN "cleaned" ELSE "deleting"]
             ELSE IF th.len = 0
             THEN Raise(t, "RuntimeError")
             ELSE [threads EXCEPT
                        ![t].di_pos = i,
                        ![t].len = th.len - 1,
                        ![t].expired =
                            IF th.now - sessions[sid].created > SESSION_TTL
                            THEN Append(th.expired, sid) ELSE th.expired]
    /\ UNCHANGED <<pc, page, sessions, entries, uuids, now, request, reply, started,
                   detectVars, mergeVars, orderVars, uploadVars>>

\* del sessions[sid] for the next sid of expired
Delete(t) ==
    /\ pc = "app"
    /\ threads[t].pc = "deleting"
    /\ LET th == threads[t]
           sid == Head(th.expired)
       IN  IF sid \notin DOMAIN sessions
           THEN /\ threads' = Raise(t, "KeyError")
                /\ UNCHANGED <<sessions, entries>>
           ELSE /\ sessions' = [s \in DOMAIN sessions \ {sid} |-> sessions[s]]
                /\ entries' = [i \in DOMAIN entries |->
                                IF entries[i] = sid THEN 0 ELSE entries[i]]
                /\ threads' = [threads EXCEPT
                        ![t].expired = Tail(th.expired),
                        ![t].pc = IF Tail(th.expired) = <<>>
                                  THEN "cleaned" ELSE "deleting"]
    /\ UNCHANGED <<pc, page, uuids, now, request, reply, started,
                   detectVars, mergeVars, orderVars, uploadVars>>

\* after _cleanup_sessions: a request without a document is answered 400;
\* otherwise the FormDocument is made, with its uuid4 and its _created
Create(t) ==
    /\ pc = "app"
    /\ threads[t].pc = "cleaned"
    /\ \E document \in BOOLEAN :
        IF document
        THEN /\ uuids' = uuids + 1
             /\ threads' = [threads EXCEPT ![t].pc = "processing",
                                           ![t].document_id = uuids + 1,
                                           ![t].created = now]
        ELSE /\ threads' = Ends(t, 400)
             /\ UNCHANGED uuids
    /\ UNCHANGED <<pc, page, sessions, entries, now, request, reply, started,
                   detectVars, mergeVars, orderVars, uploadVars>>

\* the pages are read, which may fail and is answered 500, and the document
\* of a form without fields is stored: sessions[doc.document_id] = doc
Store(t) ==
    /\ pc = "app"
    /\ threads[t].pc = "processing"
    /\ \E decoded \in BOOLEAN :
        IF decoded
        THEN /\ sessions' = (threads[t].document_id :>
                    [fields |-> order_fields(<<>>), created |-> threads[t].created])
                    @@ sessions
             /\ entries' = Append(entries, threads[t].document_id)
             /\ threads' = Ends(t, 200)
        ELSE /\ threads' = Ends(t, 500)
             /\ UNCHANGED <<sessions, entries>>
    /\ UNCHANGED <<pc, page, uuids, now, request, reply, started,
                   detectVars, mergeVars, orderVars, uploadVars>>

InitThreads ==
    /\ pc = "app"
    /\ page = NoPage
    /\ IdleDetect /\ IdleMerge /\ IdleOrder /\ IdleUpload
    /\ sessions = <<>> /\ uuids = 0 /\ now = 0 /\ request = NoRequest /\ reply = NoReply
    /\ threads = [t \in Threads |-> IdleThread]
    /\ entries = <<>>
    /\ started = 0

NextThreads ==
    \/ \E t \in Threads : Begin(t) \/ NextItem(t) \/ Delete(t) \/ Create(t) \/ Store(t)
    \/ Tick

SpecThreads == InitThreads /\ [][NextThreads]_vars

(***************************************************************************)
(* Properties of concurrent uploads                                        *)
(***************************************************************************)
\* a step in which the _cleanup_sessions of thread t returns
CleanupReturns(t) == threads[t].pc \in {"expired", "deleting"} /\ threads'[t].pc = "cleaned"

\* a step in which the _cleanup_sessions of thread t raises
CleanupRaises(t) ==
    threads[t].pc \in {"expired", "deleting"} /\ threads'[t].raised # "none"

\* when the cleanup of thread t returns, none of the sessions that were in
\* the map and older than SESSION_TTL when it started is in the map
CleanupLeavesNoStale ==
    \A t \in DOMAIN threads :
        CleanupReturns(t) => threads[t].stale \cap DOMAIN sessions' = {}

\* C21: with uploads served at once on the shared sessions map, no
\* _cleanup_sessions raises, and when one returns the map holds no session
\* that was older than SESSION_TTL when that cleanup started.
C21_ConcurrentCleanup ==
    [][/\ \A t \in DOMAIN threads : ~CleanupRaises(t)
       /\ CleanupLeavesNoStale]_vars

\* the second half of C21 alone
CleanupThatReturnsIsComplete == [][CleanupLeavesNoStale]_vars

\* a cleanup that started with a stale session in the map has returned while
\* another thread was inside its own cleanup
CleanupOverlap ==
    \E t, u \in DOMAIN threads :
        /\ t # u
        /\ threads[t].pc = "cleaned" /\ threads[t].stale # {}
        /\ threads[u].pc \in {"expired", "deleting"} /\ threads[u].stale # {}

====
